---------------------------- MODULE Spec2Model ----------------------------
(***************************************************************************)
(* Model of localization_benchmark_supervisor.py: the main thread (main(), *)
(* the constructor, start_run with its greedy tour planner and goal        *)
(* dispatch loop, the exception handlers and the finally block), the       *)
(* run-timeout timer thread, the five telemetry recorders with the files   *)
(* end_run writes, and the process snapshot timer.                         *)
(***************************************************************************)
EXTENDS Integers, Sequences, FiniteSets, TLC

(***************************************************************************)
(* Bounds of the model.                                                    *)
(***************************************************************************)
\* vertices of the graphs given to the planner alone (SpecPlanner)
MaxNodes == 4
\* edge weights (voronoi_path_distance) range over 1..MaxWeight
MaxWeight == 2
\* at most this many edges in a graph given to the planner alone
MaxEdges == 3
\* vertices of the graphs of a whole run (Spec)
RunNodes == 3
\* rows and lines of telemetry counted in a run that observes the recorders
\* (SpecTelemetry): the recorders count the first MaxRows of a run, over all
\* tables and files
MaxRows == 2
\* lines of amcl_particles.csv whose text is kept (SpecParticles)
MaxLines == 2
\* particles of a particle set (SpecParticles)
MaxParticles == 2
\* processes tracked by the snapshot timer (SpecSnapshot)
MaxProcesses == 2
\* ticks of the snapshot timer (SpecSnapshot)
MaxTicks == 3

(***************************************************************************)
(* Program constants.                                                      *)
(***************************************************************************)
\* self.goal_tolerance, a run parameter
goal_tolerance == 2

VARIABLES
    mainpc,                       \* position of the main thread
    node,                         \* main(): TRUE once the constructor returned
    raised,                       \* the exception that left the try block
    shutdown,                     \* rospy.is_shutdown()
    events,                       \* lines appended to run_events.csv
    end_run_count,                \* number of executions of end_run
    timerpc,                      \* position of the run-timeout timer thread
    ground_truth_map,             \* the graph handed over by GroundTruthMap
    voronoi_graph,                \* start_run: local copy of the graph
    costs,                        \* start_run: costs[i][j]
    current_node,                 \* start_run: current_node (0: unset)
    nodes_queue,                  \* start_run: nodes_queue
    candidates,                   \* start_run: candidates of the last step
    traversal_path_indices,       \* start_run: traversal_path_indices
    traversal_path_poses,         \* self.traversal_path_poses
    num_goals,                    \* self.num_goals
    current_goal,                 \* self.current_goal
    goal_sent_count,
    goal_succeeded_count,
    goal_failed_count,
    run_started,
    received_first_scan,
    latest_ground_truth_pose_msg,
    sent_goals,                   \* goals received by the navigation service
    nav_state,                    \* navigate_to_pose_action_client.get_state()
    scans_file,                   \* number of lines of scans.csv
    amcl_particles_file,          \* lines of amcl_particles.csv
    estimated_poses_df,           \* number of rows of the table
    estimated_correction_poses_df,
    ground_truth_poses_df,
    csv_files,                    \* rows of the tables written by end_run
    ps_snapshot_count,
    ps_snapshot_files,            \* contents of the files ps_<i>.pkl
    ps_running                    \* tracked processes that have not exited

plannervars == <<ground_truth_map, voronoi_graph, costs, current_node,
                 nodes_queue, candidates, traversal_path_indices>>
dispatchvars == <<traversal_path_poses, num_goals, current_goal,
                  goal_sent_count, goal_succeeded_count, goal_failed_count,
                  sent_goals, nav_state>>
telemetryvars == <<scans_file, amcl_particles_file, estimated_poses_df,
                   estimated_correction_poses_df, ground_truth_poses_df>>
snapshotvars == <<ps_snapshot_count, ps_snapshot_files, ps_running>>
recordvars == <<telemetryvars, csv_files, snapshotvars>>
vars == <<mainpc, node, raised, shutdown, events, end_run_count, timerpc,
          plannervars, dispatchvars, run_started, received_first_scan,
          latest_ground_truth_pose_msg, recordvars>>

(***************************************************************************)
(* Python's None and a value that is not None, as sequences of length 0    *)
(* and 1.                                                                  *)
(***************************************************************************)
None == <<>>
Some(v) == <<v>>
Val(o) == o[1]

Range(s) == {s[i] : i \in 1..Len(s)}

(***************************************************************************)
(* Graphs: a set of vertices and a weight for every unordered pair of      *)
(* vertices, 0 standing for "no edge".                                     *)
(***************************************************************************)
PairsOf(S) == {{a, b} : a, b \in S} \ {{a} : a \in S}

Graphs(n, maxw, maxe) ==
    {[nodes |-> 1..n, weight |-> w] :
        w \in {f \in [PairsOf(1..n) -> 0..maxw] :
                   Cardinality({e \in PairsOf(1..n) : f[e] > 0}) <= maxe}}

Weight(g, u, v) == IF u = v THEN 0 ELSE g.weight[{u, v}]

Neighbours(g, u) == {v \in g.nodes : v # u /\ Weight(g, u, v) > 0}

(***************************************************************************)
(* nx.all_pairs_dijkstra_path_length: Dijkstra's algorithm from one        *)
(* source; the result maps every vertex reachable from the source to the   *)
(* length of a shortest path.                                              *)
(***************************************************************************)
RECURSIVE DijkstraLoop(_, _, _)
DijkstraLoop(g, dist, done) ==
    LET fringe == (DOMAIN dist) \ done IN
    IF fringe = {} THEN dist
    ELSE LET u == CHOOSE x \in fringe : \A y \in fringe : dist[x] <= dist[y]
             relaxed == {v \in Neighbours(g, u) \ done :
                            \/ v \notin DOMAIN dist
                            \/ dist[u] + Weight(g, u, v) < dist[v]}
             dist2 == [v \in (DOMAIN dist) \cup relaxed |->
                          IF v \in relaxed THEN dist[u] + Weight(g, u, v)
                          ELSE dist[v]]
         IN DijkstraLoop(g, dist2, done \cup {u})

dijkstra_path_length(g, source) ==
    DijkstraLoop(g, [v \in {source} |-> 0], {})

\* nx.node_connected_component
node_connected_component(g, v) == DOMAIN dijkstra_path_length(g, v)

\* nx.connected_components
connected_components(g) == {node_connected_component(g, v) : v \in g.nodes}

\* lines 169-173: costs[i][j] for every j reachable from i, j # i
MinimumLengthCosts(g) ==
    [i \in g.nodes |->
        LET d == dijkstra_path_length(g, i)
        IN [j \in (DOMAIN d) \ {i} |-> d[j]]]

\* a mutation of RemoveSmallComponents: nothing is removed
RemoveSmallComponents_none(g) == g

\* lines 176-179: remove the components with less than two nodes
RemoveSmallComponents(g) ==
    LET small == {c \in connected_components(g) : Cardinality(c) < 2}
    IN [g EXCEPT !.nodes = g.nodes \ UNION small]

(***************************************************************************)
(* The iteration order of costs[current_node].items() is the key order of  *)
(* a networkx dictionary, which the source does not determine.  The orders *)
(* drawn here are the rotations of the ascending order: every key comes    *)
(* first in one of them, so every outcome of the tie-break of line 192 is  *)
(* produced.                                                               *)
(***************************************************************************)
RECURSIVE Ascending(_)
Ascending(S) ==
    IF S = {} THEN <<>>
    ELSE LET m == CHOOSE x \in S : \A y \in S : x <= y
         IN <<m>> \o Ascending(S \ {m})

Rotate(s, k) ==
    [i \in 1..Len(s) |-> s[((i + k - 1) % Len(s)) + 1]]

Orderings(S) ==
    {Rotate(Ascending(S), k) : k \in 0..(Cardinality(S) - 1)}

\* a mutation of FilterCandidates: the test "in nodes_queue" is left out
FilterCandidates_unfiltered(items, queue) == items

\* line 190: the items of the table whose key is still in the queue
FilterCandidates(items, queue) ==
    SelectSeq(items, LAMBDA node_cost : node_cost[1] \in queue)

\* a mutation of ArgMin: the last index holding the minimum
ArgMin_last(s) ==
    CHOOSE i \in 1..Len(s) :
        /\ \A j \in 1..Len(s) : s[i] <= s[j]
        /\ \A j \in (i + 1)..Len(s) : s[j] > s[i]

\* np.argmin: the first index holding the minimum
ArgMin(s) ==
    CHOOSE i \in 1..Len(s) :
        /\ \A j \in 1..Len(s) : s[i] <= s[j]
        /\ \A j \in 1..(i - 1) : s[j] > s[i]

\* lines 191-192
NextNode(cands) ==
    LET candidate_nodes == [i \in 1..Len(cands) |-> cands[i][1]]
        candidate_costs == [i \in 1..Len(cands) |-> cands[i][2]]
    IN candidate_nodes[ArgMin(candidate_costs)]

\* line 201: the 'vertex' attribute (position) of a vertex of the graph
VertexPosition(v) == [x |-> v, y |-> 0]

(***************************************************************************)
(* write_event: one line appended to the run events file.                  *)
(***************************************************************************)
write_event(event) == events' = Append(events, event)

(***************************************************************************)
(* The state after rospy.init_node, before the constructor runs.           *)
(***************************************************************************)
InitWith(graphs, pc, constructed, scan) ==
    /\ mainpc = pc
    /\ node = constructed
    /\ raised = "none"
    /\ shutdown = FALSE
    /\ events = <<>>
    /\ end_run_count = 0
    /\ timerpc = "waiting"
    /\ ground_truth_map \in graphs
    /\ voronoi_graph = None
    /\ costs = None
    /\ current_node = 0
    /\ nodes_queue = {}
    /\ candidates = <<>>
    /\ traversal_path_indices = <<>>
    /\ traversal_path_poses = None
    /\ num_goals = None
    /\ current_goal = None
    /\ goal_sent_count = 0
    /\ goal_succeeded_count = 0
    /\ goal_failed_count = 0
    /\ run_started = FALSE
    /\ received_first_scan = scan
    /\ latest_ground_truth_pose_msg = None
    /\ sent_goals = <<>>
    /\ nav_state = "PENDING"
    /\ scans_file = 0
    /\ amcl_particles_file = <<>>
    /\ estimated_poses_df = 0
    /\ estimated_correction_poses_df = 0
    /\ ground_truth_poses_df = 0
    /\ csv_files = None
    /\ ps_snapshot_count = 0
    /\ ps_snapshot_files = [i \in {} |-> None]
    /\ ps_running = 1..MaxProcesses

mainvars == <<node, raised, shutdown, events, end_run_count, timerpc>>
sharedvars == <<run_started, received_first_scan, latest_ground_truth_pose_msg>>

(***************************************************************************)
(* start_run, lines 165-195: the planner.                                  *)
(***************************************************************************)
\* lines 166-173
GetGraph ==
    /\ mainpc = "get_graph"
    /\ voronoi_graph' = Some(ground_truth_map)
    /\ costs' = Some(MinimumLengthCosts(ground_truth_map))
    /\ mainpc' = "prune"
    /\ UNCHANGED recordvars
    /\ UNCHANGED <<mainvars, sharedvars, dispatchvars, ground_truth_map,
                   current_node, nodes_queue, candidates,
                   traversal_path_indices>>

\* lines 176-183
Prune ==
    /\ mainpc = "prune"
    /\ LET pruned == RemoveSmallComponents(Val(voronoi_graph)) IN
        /\ voronoi_graph' = Some(pruned)
        /\ IF Cardinality(pruned.nodes) < 2
           THEN /\ write_event("insufficient_number_of_nodes_in_deleaved_reduced_voronoi_graph")
                /\ raised' = "RunFailException"
                /\ mainpc' = "finally"
           ELSE /\ mainpc' = "choose_start"
                /\ UNCHANGED <<events, raised>>
    /\ UNCHANGED recordvars
    /\ UNCHANGED <<node, shutdown, end_run_count, timerpc, sharedvars,
                   dispatchvars, ground_truth_map, costs, current_node,
                   nodes_queue, candidates, traversal_path_indices>>

\* a mutation of ChooseStart: the start vertex is taken out of the queue
ChooseStart_dequeued ==
    /\ mainpc = "choose_start"
    /\ \E start \in Val(voronoi_graph).nodes :
        /\ current_node' = start
        /\ nodes_queue' =
               node_connected_component(Val(voronoi_graph), start) \ {start}
    /\ traversal_path_indices' = <<>>
    /\ mainpc' = "greedy"
    /\ UNCHANGED recordvars
    /\ UNCHANGED <<mainvars, sharedvars, dispatchvars, ground_truth_map,
                   voronoi_graph, costs, candidates>>

\* lines 186-188
ChooseStart ==
    /\ mainpc = "choose_start"
    /\ \E start \in Val(voronoi_graph).nodes :
        /\ current_node' = start
        /\ nodes_queue' = node_connected_component(Val(voronoi_graph), start)
    /\ traversal_path_indices' = <<>>
    /\ mainpc' = "greedy"
    /\ UNCHANGED recordvars
    /\ UNCHANGED <<mainvars, sharedvars, dispatchvars, ground_truth_map,
                   voronoi_graph, costs, candidates>>

\* lines 189-195, one iteration of the while loop
GreedyStepBody(items) ==
    LET cands == FilterCandidates(items, nodes_queue) IN
    /\ candidates' = cands
    /\ IF cands = <<>>
       THEN \* zip(*candidates) of an empty list: ValueError at line 191
            /\ raised' = "Exception"
            /\ mainpc' = "finally"
            /\ UNCHANGED <<traversal_path_indices, current_node, nodes_queue>>
       ELSE LET next_node == NextNode(cands) IN
            /\ traversal_path_indices' = Append(traversal_path_indices, next_node)
            /\ current_node' = next_node
            /\ nodes_queue' = nodes_queue \ {next_node}
            /\ UNCHANGED <<raised, mainpc>>

GreedyStep ==
    /\ mainpc = "greedy"
    /\ nodes_queue # {}
    /\ LET table == Val(costs)[current_node] IN
       \E order \in Orderings(DOMAIN table) :
          GreedyStepBody([i \in 1..Len(order) |-> <<order[i], table[order[i]]>>])
    /\ UNCHANGED recordvars
    /\ UNCHANGED <<node, shutdown, events, end_run_count, timerpc, sharedvars,
                   dispatchvars, ground_truth_map, voronoi_graph, costs>>

\* line 189 (loop exit) and lines 197-217
Convert ==
    /\ mainpc = "greedy"
    /\ nodes_queue = {}
    /\ traversal_path_poses' =
           Some([i \in 1..Len(traversal_path_indices) |->
                    VertexPosition(traversal_path_indices[i])])
    /\ num_goals' = Some(Len(traversal_path_indices))
    /\ mainpc' = "write_run_start"
    /\ UNCHANGED recordvars
    /\ UNCHANGED <<mainvars, sharedvars, plannervars, current_goal,
                   goal_sent_count, goal_succeeded_count, goal_failed_count,
                   sent_goals, nav_state>>

(***************************************************************************)
(* main(), lines 41-44: the constructor and the wait for the first scan.   *)
(***************************************************************************)
\* line 42: the constructor returns, or raises (a missing parameter, ...)
Construct ==
    /\ mainpc = "init"
    /\ \E ok \in BOOLEAN :
        IF ok THEN /\ node' = TRUE
                   /\ mainpc' = "wait_first_scan"
                   /\ UNCHANGED raised
              ELSE /\ raised' = "Exception"
                   /\ mainpc' = "finally"
                   /\ UNCHANGED node
    /\ UNCHANGED recordvars
    /\ UNCHANGED <<shutdown, events, end_run_count, timerpc, sharedvars,
                   plannervars, dispatchvars>>

\* lines 158-163: the loop ends on the first scan or on shutdown
WaitFirstScan ==
    /\ mainpc = "wait_first_scan"
    /\ received_first_scan \/ shutdown
    /\ mainpc' = "get_graph"
    /\ UNCHANGED recordvars
    /\ UNCHANGED <<mainvars, sharedvars, plannervars, dispatchvars>>

(***************************************************************************)
(* start_run, lines 219-273: the goal dispatch loop.                       *)
(***************************************************************************)
\* line 219
WriteRunStart ==
    /\ mainpc = "write_run_start"
    /\ write_event("run_start")
    /\ mainpc' = "set_run_started"
    /\ UNCHANGED recordvars
    /\ UNCHANGED <<node, raised, shutdown, end_run_count, timerpc, sharedvars,
                   plannervars, dispatchvars>>

\* line 220
SetRunStarted ==
    /\ mainpc = "set_run_started"
    /\ run_started' = TRUE
    /\ mainpc' = "loop_test"
    /\ UNCHANGED recordvars
    /\ UNCHANGED <<mainvars, received_first_scan,
                   latest_ground_truth_pose_msg, plannervars, dispatchvars>>

\* line 223; leaving the loop returns from start_run to rospy.spin()
LoopTest ==
    /\ mainpc = "loop_test"
    /\ mainpc' = IF shutdown THEN "spin" ELSE "wait_for_server"
    /\ UNCHANGED recordvars
    /\ UNCHANGED <<mainvars, sharedvars, plannervars, dispatchvars>>

\* a mutation of WaitForServer: the raise of line 228 is missing, the loop
\* goes on to send the waypoint
WaitForServer_continue ==
    /\ mainpc = "wait_for_server"
    /\ \E available \in BOOLEAN :
        IF available
        THEN UNCHANGED events
        ELSE write_event("failed_to_communicate_with_navigation_node")
    /\ mainpc' = "dispatch"
    /\ UNCHANGED recordvars
    /\ UNCHANGED <<node, raised, shutdown, end_run_count, timerpc, sharedvars,
                   plannervars, dispatchvars>>

\* lines 226-228
WaitForServer ==
    /\ mainpc = "wait_for_server"
    /\ \E available \in BOOLEAN :
        IF available
        THEN /\ mainpc' = "dispatch"
             /\ UNCHANGED <<events, raised>>
        ELSE /\ write_event("failed_to_communicate_with_navigation_node")
             /\ raised' = "RunFailException"
             /\ mainpc' = "finally"
    /\ UNCHANGED recordvars
    /\ UNCHANGED <<node, shutdown, end_run_count, timerpc, sharedvars,
                   plannervars, dispatchvars>>

\* a mutation of popleft: pop(), which takes the last pose
popleft_last(q) == [item |-> q[Len(q)], rest |-> SubSeq(q, 1, Len(q) - 1)]

\* a mutation of popleft: the first pose is read and left in the deque
popleft_peek(q) == [item |-> Head(q), rest |-> q]

\* line 237: deque.popleft() returns the first pose and removes it
popleft(q) == [item |-> Head(q), rest |-> Tail(q)]

\* lines 230-240: the emptiness check, popleft and send_goal
Dispatch ==
    /\ mainpc = "dispatch"
    /\ IF Len(Val(traversal_path_poses)) = 0
       THEN /\ write_event("insufficient_number_of_poses_in_traversal_path")
            /\ raised' = "RunFailException"
            /\ mainpc' = "finally"
            /\ UNCHANGED <<traversal_path_poses, current_goal, sent_goals>>
       ELSE LET popped == popleft(Val(traversal_path_poses)) IN
            /\ traversal_path_poses' = Some(popped.rest)
            /\ current_goal' = Some(popped.item)
            /\ sent_goals' = Append(sent_goals, popped.item)
            /\ mainpc' = "write_target_pose_set"
            /\ UNCHANGED <<events, raised>>
    /\ nav_state' = "PENDING"
    /\ UNCHANGED recordvars
    /\ UNCHANGED <<node, shutdown, end_run_count, timerpc, sharedvars,
                   plannervars, num_goals, goal_sent_count,
                   goal_succeeded_count, goal_failed_count>>

\* line 241
WriteTargetPoseSet ==
    /\ mainpc = "write_target_pose_set"
    /\ write_event("target_pose_set")
    /\ mainpc' = "count_sent"
    /\ UNCHANGED recordvars
    /\ UNCHANGED <<node, raised, shutdown, end_run_count, timerpc, sharedvars,
                   plannervars, dispatchvars>>

\* a mutation of CountSent: the increment of line 242 is left out
CountSent_missing ==
    /\ mainpc = "count_sent"
    /\ mainpc' = "wait_for_result"
    /\ UNCHANGED recordvars
    /\ UNCHANGED <<mainvars, sharedvars, plannervars, dispatchvars>>

\* line 242
CountSent ==
    /\ mainpc = "count_sent"
    /\ goal_sent_count' = goal_sent_count + 1
    /\ mainpc' = "wait_for_result"
    /\ UNCHANGED recordvars
    /\ UNCHANGED <<mainvars, sharedvars, plannervars, traversal_path_poses,
                   num_goals, current_goal, goal_succeeded_count,
                   goal_failed_count, sent_goals, nav_state>>

\* line 244: the result arrives in time with a terminal status, or it does not
WaitForResult ==
    /\ mainpc = "wait_for_result"
    /\ \/ \E status \in {"SUCCEEDED", "ABORTED"} :
            /\ nav_state' = status
            /\ mainpc' = "classify"
       \/ /\ mainpc' = "write_waypoint_timeout"
          /\ UNCHANGED nav_state
    /\ UNCHANGED recordvars
    /\ UNCHANGED <<mainvars, sharedvars, plannervars, traversal_path_poses,
                   num_goals, current_goal, goal_sent_count,
                   goal_succeeded_count, goal_failed_count, sent_goals>>

\* line 245
WriteWaypointTimeout ==
    /\ mainpc = "write_waypoint_timeout"
    /\ write_event("waypoint_timeout")
    /\ mainpc' = "write_timeout_finished"
    /\ UNCHANGED recordvars
    /\ UNCHANGED <<node, raised, shutdown, end_run_count, timerpc, sharedvars,
                   plannervars, dispatchvars>>

\* lines 246-247
WriteTimeoutFinished ==
    /\ mainpc = "write_timeout_finished"
    /\ write_event("supervisor_finished")
    /\ raised' = "RunFailException"
    /\ mainpc' = "finally"
    /\ UNCHANGED recordvars
    /\ UNCHANGED <<node, shutdown, end_run_count, timerpc, sharedvars,
                   plannervars, dispatchvars>>

\* lines 250-253: np.sqrt(dx ** 2 + dy ** 2) < goal_tolerance, on integers
DistanceBelowTolerance(goal_position, current_position) ==
    LET dx == goal_position.x - current_position.x
        dy == goal_position.y - current_position.y
    IN /\ goal_tolerance > 0
       /\ dx * dx + dy * dy < goal_tolerance * goal_tolerance

\* lines 249-263; line 251 raises AttributeError on None
Classify ==
    /\ mainpc = "classify"
    /\ IF nav_state = "SUCCEEDED" /\ latest_ground_truth_pose_msg = None
       THEN /\ raised' = "Exception"
            /\ mainpc' = "finally"
            /\ UNCHANGED <<events, goal_succeeded_count, goal_failed_count>>
       ELSE /\ IF /\ nav_state = "SUCCEEDED"
                  /\ DistanceBelowTolerance(Val(current_goal),
                                            Val(latest_ground_truth_pose_msg))
               THEN /\ write_event("target_pose_reached")
                    /\ goal_succeeded_count' = goal_succeeded_count + 1
                    /\ UNCHANGED goal_failed_count
               ELSE /\ write_event("target_pose_not_reached")
                    /\ goal_failed_count' = goal_failed_count + 1
                    /\ UNCHANGED goal_succeeded_count
            /\ mainpc' = "clear_goal"
            /\ UNCHANGED raised
    /\ UNCHANGED recordvars
    /\ UNCHANGED <<node, shutdown, end_run_count, timerpc, sharedvars,
                   plannervars, traversal_path_poses, num_goals, current_goal,
                   goal_sent_count, sent_goals, nav_state>>

\* a mutation of ClearGoal: the test of lines 268-271 is missing, the loop
\* always goes on
ClearGoal_unchecked ==
    /\ mainpc = "clear_goal"
    /\ current_goal' = None
    /\ mainpc' = "sleep"
    /\ UNCHANGED recordvars
    /\ UNCHANGED <<mainvars, sharedvars, plannervars, traversal_path_poses,
                   num_goals, goal_sent_count, goal_succeeded_count,
                   goal_failed_count, sent_goals, nav_state>>

\* a mutation of ClearGoal: the test of line 268 is met with one waypoint
\* left
ClearGoal_early ==
    /\ mainpc = "clear_goal"
    /\ current_goal' = None
    /\ mainpc' = IF Len(Val(traversal_path_poses)) <= 1
                 THEN "write_run_completed" ELSE "sleep"
    /\ UNCHANGED recordvars
    /\ UNCHANGED <<mainvars, sharedvars, plannervars, traversal_path_poses,
                   num_goals, goal_sent_count, goal_succeeded_count,
                   goal_failed_count, sent_goals, nav_state>>

\* lines 265-268
ClearGoal ==
    /\ mainpc = "clear_goal"
    /\ current_goal' = None
    /\ mainpc' = IF Len(Val(traversal_path_poses)) = 0
                 THEN "write_run_completed" ELSE "sleep"
    /\ UNCHANGED recordvars
    /\ UNCHANGED <<mainvars, sharedvars, plannervars, traversal_path_poses,
                   num_goals, goal_sent_count, goal_succeeded_count,
                   goal_failed_count, sent_goals, nav_state>>

\* line 269
WriteRunCompleted ==
    /\ mainpc = "write_run_completed"
    /\ write_event("run_completed")
    /\ mainpc' = "signal_run_completed"
    /\ UNCHANGED recordvars
    /\ UNCHANGED <<node, raised, shutdown, end_run_count, timerpc, sharedvars,
                   plannervars, dispatchvars>>

\* a mutation of SignalRunCompleted: the call of line 270 is missing, and
\* rospy.spin at line 44 waits for a shutdown that start_run did not signal
SignalRunCompleted_missing ==
    /\ mainpc = "signal_run_completed"
    /\ mainpc' = "spin"
    /\ UNCHANGED recordvars
    /\ UNCHANGED <<mainvars, sharedvars, plannervars, dispatchvars>>

\* lines 270-271
SignalRunCompleted ==
    /\ mainpc = "signal_run_completed"
    /\ shutdown' = TRUE
    /\ mainpc' = "spin"
    /\ UNCHANGED recordvars
    /\ UNCHANGED <<node, raised, events, end_run_count, timerpc, sharedvars,
                   plannervars, dispatchvars>>

\* line 273
Sleep ==
    /\ mainpc = "sleep"
    /\ mainpc' = "loop_test"
    /\ UNCHANGED recordvars
    /\ UNCHANGED <<mainvars, sharedvars, plannervars, dispatchvars>>

(***************************************************************************)
(* main(), lines 44-58: spin, the exception handlers and the finally block *)
(***************************************************************************)
\* line 44: rospy.spin() returns once shutdown has been signalled
Spin ==
    /\ mainpc = "spin"
    /\ shutdown
    /\ mainpc' = "finally"
    /\ UNCHANGED recordvars
    /\ UNCHANGED <<mainvars, sharedvars, plannervars, dispatchvars>>

\* the calls of the try block in which the main thread blocks
BlockingCalls ==
    {"init", "wait_first_scan", "wait_for_server", "wait_for_result",
     "sleep", "spin"}

\* line 46: a KeyboardInterrupt reaches the main thread in a blocking call
KeyboardInterrupt ==
    /\ mainpc \in BlockingCalls
    /\ raised' = "KeyboardInterrupt"
    /\ mainpc' = "except_interrupt"
    /\ UNCHANGED recordvars
    /\ UNCHANGED <<node, shutdown, events, end_run_count, timerpc, sharedvars,
                   plannervars, dispatchvars>>

\* lines 47 and 280; node.ros_shutdown_callback raises AttributeError on None
RosShutdownCallback ==
    /\ mainpc = "except_interrupt"
    /\ IF node
       THEN /\ write_event("ros_shutdown")
            /\ mainpc' = "write_shutdown_finished"
            /\ UNCHANGED raised
       ELSE /\ raised' = "AttributeError"
            /\ mainpc' = "finally"
            /\ UNCHANGED events
    /\ UNCHANGED recordvars
    /\ UNCHANGED <<node, shutdown, end_run_count, timerpc, sharedvars,
                   plannervars, dispatchvars>>

\* line 281
WriteShutdownFinished ==
    /\ mainpc = "write_shutdown_finished"
    /\ write_event("supervisor_finished")
    /\ mainpc' = "finally"
    /\ UNCHANGED recordvars
    /\ UNCHANGED <<node, raised, shutdown, end_run_count, timerpc, sharedvars,
                   plannervars, dispatchvars>>

\* lines 283-290
end_run ==
    /\ end_run_count' = end_run_count + 1
    /\ csv_files' = Some([estimated_poses |-> estimated_poses_df,
                          estimated_correction_poses |->
                              estimated_correction_poses_df,
                          ground_truth_poses |-> ground_truth_poses_df])

\* a mutation of Finally: end_run is called whether or not node is None
Finally_unconditional ==
    /\ mainpc = "finally"
    /\ end_run
    /\ mainpc' = "finally_signal"
    /\ UNCHANGED <<telemetryvars, snapshotvars>>
    /\ UNCHANGED <<node, raised, shutdown, events, timerpc, sharedvars,
                   plannervars, dispatchvars>>

\* lines 54-55
Finally ==
    /\ mainpc = "finally"
    /\ IF node THEN end_run ELSE UNCHANGED <<end_run_count, csv_files>>
    /\ mainpc' = "finally_signal"
    /\ UNCHANGED <<telemetryvars, snapshotvars>>
    /\ UNCHANGED <<node, raised, shutdown, events, timerpc, sharedvars,
                   plannervars, dispatchvars>>

\* lines 56-58
FinallySignal ==
    /\ mainpc = "finally_signal"
    /\ shutdown' = TRUE
    /\ mainpc' = "exit"
    /\ UNCHANGED recordvars
    /\ UNCHANGED <<node, raised, events, end_run_count, timerpc, sharedvars,
                   plannervars, dispatchvars>>

(***************************************************************************)
(* run_timeout_callback, lines 293-297, in the thread of the rospy.Timer   *)
(* of line 132.  The timer fires only while the node is not shut down; the *)
(* thread dies with the process.                                           *)
(***************************************************************************)
\* line 295
RunTimeoutCallback ==
    /\ timerpc = "waiting"
    /\ node /\ ~shutdown /\ mainpc # "exit"
    /\ write_event("run_timeout")
    /\ timerpc' = "write_finished"
    /\ UNCHANGED recordvars
    /\ UNCHANGED <<mainpc, node, raised, shutdown, end_run_count, sharedvars,
                   plannervars, dispatchvars>>

\* line 296
RunTimeoutFinished ==
    /\ timerpc = "write_finished"
    /\ mainpc # "exit"
    /\ write_event("supervisor_finished")
    /\ timerpc' = "signal"
    /\ UNCHANGED recordvars
    /\ UNCHANGED <<mainpc, node, raised, shutdown, end_run_count, sharedvars,
                   plannervars, dispatchvars>>

\* line 297
RunTimeoutSignal ==
    /\ timerpc = "signal"
    /\ mainpc # "exit"
    /\ shutdown' = TRUE
    /\ timerpc' = "done"
    /\ UNCHANGED recordvars
    /\ UNCHANGED <<mainpc, node, raised, events, end_run_count, sharedvars,
                   plannervars, dispatchvars>>

(***************************************************************************)
(* The telemetry recorders, lines 299-393.  Each is one callback, run to   *)
(* completion in the thread of its subscriber or timer; none is delivered  *)
(* after rospy.signal_shutdown.                                            *)
(***************************************************************************)
\* rows and lines recorded so far, over all tables and files
RecordedRows ==
    scans_file + Len(amcl_particles_file) + estimated_poses_df
        + estimated_correction_poses_df + ground_truth_poses_df

\* DataFrame.append and file.write in mode 'a', on a count of rows
AppendRow(rows, bound) == IF RecordedRows < bound THEN rows + 1 ELSE rows

\* file.write in mode 'a', on the lines themselves
AppendLine(lines, line, bound) ==
    IF RecordedRows < bound THEN Append(lines, line) ELSE lines

\* lines 299-313
scan_callback_counting(bound) ==
    /\ node /\ ~shutdown
    /\ received_first_scan' = TRUE
    /\ IF ~run_started
       THEN UNCHANGED scans_file
       ELSE scans_file' = AppendRow(scans_file, bound)
    /\ UNCHANGED <<amcl_particles_file, estimated_poses_df,
                   estimated_correction_poses_df, ground_truth_poses_df,
                   csv_files, snapshotvars>>
    /\ UNCHANGED <<mainpc, mainvars, run_started,
                   latest_ground_truth_pose_msg, plannervars, dispatchvars>>

\* the callback in a whole run (Spec), which does not count the lines
scan_callback == scan_callback_counting(0)

\* the callback in a run that observes the recorders (SpecTelemetry)
scan_callback_recording == scan_callback_counting(MaxRows)

\* str() of a value: a text of one token
str(v) == <<ToString(v)>>

\* sep.join(strings): a text is a sequence of tokens, and the separator is
\* a token of its own
RECURSIVE join(_, _)
join(sep, strings) ==
    IF strings = <<>> THEN <<>>
    ELSE IF Len(strings) = 1 THEN strings[1]
    ELSE strings[1] \o <<sep>> \o join(sep, Tail(strings))

\* lines 320-328: the loop that builds poses_str
RECURSIVE PosesStr(_)
PosesStr(poses) ==
    IF poses = <<>> THEN <<>>
    ELSE LET particle_pose == poses[Len(poses)] IN
         PosesStr(SubSeq(poses, 1, Len(poses) - 1))
             \o join(", ", <<str(particle_pose.x), str(particle_pose.y),
                             str(particle_pose.yaw)>>)

\* lines 331-335: "{t}, {frame_id}, {n}, {poses}\n", without the newline
ParticlesLine(pose_array_msg) ==
    str(pose_array_msg.t) \o <<", ">> \o <<pose_array_msg.frame_id>>
        \o <<", ">> \o str(Len(pose_array_msg.poses)) \o <<", ">>
        \o PosesStr(pose_array_msg.poses)

\* poses of a particle: two positions along the x axis, two headings
ParticlePoses == [x : 0..1, y : {0}, yaw : 0..1]

\* the particle sets of at most n particles
ParticleSets(n) ==
    {[t |-> 0, frame_id |-> "map", poses |-> poses] :
        poses \in UNION {[1..k -> ParticlePoses] : k \in 0..n}}

\* lines 315-335
amcl_particles_callback_on(messages, bound) ==
    /\ node /\ ~shutdown
    /\ \E pose_array_msg \in messages :
           IF ~run_started
           THEN UNCHANGED amcl_particles_file
           ELSE amcl_particles_file' =
                    AppendLine(amcl_particles_file,
                               ParticlesLine(pose_array_msg), bound)
    /\ UNCHANGED <<scans_file, estimated_poses_df,
                   estimated_correction_poses_df, ground_truth_poses_df,
                   csv_files, snapshotvars>>
    /\ UNCHANGED <<mainpc, mainvars, sharedvars, plannervars, dispatchvars>>

\* lines 337-356, in the thread of the rospy.Timer of line 134; the
\* transform lookup either answers or raises
write_estimated_pose_timer_callback ==
    /\ node /\ ~shutdown
    /\ \E transform_found \in BOOLEAN :
           IF run_started /\ transform_found
           THEN estimated_poses_df' = AppendRow(estimated_poses_df, MaxRows)
           ELSE UNCHANGED estimated_poses_df
    /\ UNCHANGED <<scans_file, amcl_particles_file,
                   estimated_correction_poses_df, ground_truth_poses_df,
                   csv_files, snapshotvars>>
    /\ UNCHANGED <<mainpc, mainvars, sharedvars, plannervars, dispatchvars>>

\* a mutation of estimated_pose_correction_callback: the test of run_started
\* of lines 359-360 is missing
estimated_pose_correction_callback_ungated ==
    /\ node /\ ~shutdown
    /\ estimated_correction_poses_df' =
           AppendRow(estimated_correction_poses_df, MaxRows)
    /\ UNCHANGED <<scans_file, amcl_particles_file, estimated_poses_df,
                   ground_truth_poses_df, csv_files, snapshotvars>>
    /\ UNCHANGED <<mainpc, mainvars, sharedvars, plannervars, dispatchvars>>

\* lines 358-375
estimated_pose_correction_callback ==
    /\ node /\ ~shutdown
    /\ IF ~run_started
       THEN UNCHANGED estimated_correction_poses_df
       ELSE estimated_correction_poses_df' =
                AppendRow(estimated_correction_poses_df, MaxRows)
    /\ UNCHANGED <<scans_file, amcl_particles_file, estimated_poses_df,
                   ground_truth_poses_df, csv_files, snapshotvars>>
    /\ UNCHANGED <<mainpc, mainvars, sharedvars, plannervars, dispatchvars>>

\* positions the ground truth odometry reports: at the first vertex, and at
\* the distance goal_tolerance from it
GroundTruthPositions ==
    {[x |-> 1, y |-> py] : py \in {0, goal_tolerance}}

\* lines 377-393
ground_truth_pose_callback_counting(bound) ==
    /\ node /\ ~shutdown
    /\ \E position \in GroundTruthPositions :
           latest_ground_truth_pose_msg' = Some(position)
    /\ IF ~run_started
       THEN UNCHANGED ground_truth_poses_df
       ELSE ground_truth_poses_df' = AppendRow(ground_truth_poses_df, bound)
    /\ UNCHANGED <<scans_file, amcl_particles_file, estimated_poses_df,
                   estimated_correction_poses_df, csv_files, snapshotvars>>
    /\ UNCHANGED <<mainpc, mainvars, run_started, received_first_scan,
                   plannervars, dispatchvars>>

\* the callback in a whole run (Spec), which does not count the rows
ground_truth_pose_callback == ground_truth_pose_callback_counting(0)

\* the callback in a run that observes the recorders (SpecTelemetry)
ground_truth_pose_callback_recording ==
    ground_truth_pose_callback_counting(MaxRows)

(***************************************************************************)
(* ps_snapshot_timer_callback, lines 395-419, in the thread of the         *)
(* rospy.Timer of line 133.                                                *)
(***************************************************************************)
\* lines 398-412: the dictionaries of the processes that still run and whose
\* dictionary holds the three keys deleted at lines 406-408, in the order
\* of self.ps_processes
ProcessesDictsList(complete) == Ascending(complete)

\* lines 413-417: open(path, 'wb') creates or empties the file, pickle.dump
\* either writes the list or raises TypeError and leaves the file without
\* a list; the empty list is always serializable
SnapshotFile(processes_dicts_list, serializable) ==
    IF serializable \/ processes_dicts_list = <<>>
    THEN Some(processes_dicts_list)
    ELSE None

\* a mutation of ps_snapshot_timer_callback: the list is serialized before
\* the file is opened, so that a tick whose serialization fails leaves no
\* file
ps_snapshot_timer_callback_unopened ==
    /\ node /\ ~shutdown
    /\ ps_snapshot_count < MaxTicks
    /\ \E complete \in SUBSET ps_running, serializable \in BOOLEAN :
           LET file == SnapshotFile(ProcessesDictsList(complete),
                                    serializable) IN
           ps_snapshot_files' =
               IF file = None THEN ps_snapshot_files
               ELSE (ps_snapshot_count :> file) @@ ps_snapshot_files
    /\ ps_snapshot_count' = ps_snapshot_count + 1
    /\ UNCHANGED <<ps_running, telemetryvars, csv_files>>
    /\ UNCHANGED <<mainpc, mainvars, sharedvars, plannervars, dispatchvars>>

\* lines 395-419
ps_snapshot_timer_callback ==
    /\ node /\ ~shutdown
    /\ ps_snapshot_count < MaxTicks
    /\ \E complete \in SUBSET ps_running, serializable \in BOOLEAN :
           ps_snapshot_files' =
               (ps_snapshot_count :>
                    SnapshotFile(ProcessesDictsList(complete), serializable))
                   @@ ps_snapshot_files
    /\ ps_snapshot_count' = ps_snapshot_count + 1
    /\ UNCHANGED <<ps_running, telemetryvars, csv_files>>
    /\ UNCHANGED <<mainpc, mainvars, sharedvars, plannervars, dispatchvars>>

\* lines 401-402: a tracked process exits, and psutil raises NoSuchProcess
\* for it from then on
ProcessExits ==
    /\ \E process \in ps_running : ps_running' = ps_running \ {process}
    /\ UNCHANGED <<ps_snapshot_count, ps_snapshot_files, telemetryvars,
                   csv_files>>
    /\ UNCHANGED <<mainpc, mainvars, sharedvars, plannervars, dispatchvars>>

(***************************************************************************)
(* A whole run, from rospy.init_node to the end of main().                 *)
(***************************************************************************)
\* The maps of a whole run are corridors: vertices 1..RunNodes in a row, an
\* edge of length 1 between some of the consecutive ones.
RunGraphs ==
    {g \in Graphs(RunNodes, 1, RunNodes) :
        \A e \in PairsOf(1..RunNodes) :
            g.weight[e] > 0 => \E i \in 1..(RunNodes - 1) : e = {i, i + 1}}

Init == InitWith(RunGraphs, "init", FALSE, FALSE)

Next ==
    \/ Construct
    \/ WaitFirstScan
    \/ GetGraph
    \/ Prune
    \/ ChooseStart
    \/ GreedyStep
    \/ Convert
    \/ WriteRunStart
    \/ SetRunStarted
    \/ LoopTest
    \/ WaitForServer
    \/ Dispatch
    \/ WriteTargetPoseSet
    \/ CountSent
    \/ WaitForResult
    \/ WriteWaypointTimeout
    \/ WriteTimeoutFinished
    \/ Classify
    \/ ClearGoal
    \/ WriteRunCompleted
    \/ SignalRunCompleted
    \/ Sleep
    \/ Spin
    \/ KeyboardInterrupt
    \/ RosShutdownCallback
    \/ WriteShutdownFinished
    \/ Finally
    \/ FinallySignal
    \/ RunTimeoutCallback
    \/ RunTimeoutFinished
    \/ RunTimeoutSignal
    \/ scan_callback
    \/ ground_truth_pose_callback

Spec == Init /\ [][Next]_vars

(***************************************************************************)
(* The planner alone, on every graph within the bounds: the state at line  *)
(* 165, once the first scan has been received.                             *)
(***************************************************************************)
InitPlanner ==
    InitWith(Graphs(MaxNodes, MaxWeight, MaxEdges), "get_graph", TRUE, TRUE)

NextPlanner ==
    \/ GetGraph
    \/ Prune
    \/ ChooseStart
    \/ GreedyStep
    \/ Convert

SpecPlanner == InitPlanner /\ [][NextPlanner]_vars

(***************************************************************************)
(* The planner on the maps of at most RunNodes vertices, every weight and  *)
(* every set of edges within the bounds: the specification of the          *)
(* properties that follow one start vertex through the whole loop.         *)
(***************************************************************************)
InitTour ==
    InitWith(Graphs(RunNodes, MaxWeight, MaxEdges), "get_graph", TRUE, TRUE)

SpecTour == InitTour /\ [][NextPlanner]_vars

(***************************************************************************)
(* A whole run with its five telemetry recorders, on the maps of two       *)
(* vertices: the one with an edge, and the one without, on which planning  *)
(* fails.                                                                  *)
(***************************************************************************)
\* the steps of the main thread up to line 219: the constructor, the wait
\* for the first scan, the planner, the write of run_start
MainThreadPlanning ==
    \/ Construct
    \/ WaitFirstScan
    \/ GetGraph
    \/ Prune
    \/ ChooseStart
    \/ GreedyStep
    \/ Convert
    \/ WriteRunStart

\* the steps of the main thread from line 220 on: the dispatch loop, the
\* exception handlers and the finally block of main()
MainThreadRunning ==
    \/ SetRunStarted
    \/ LoopTest
    \/ WaitForServer
    \/ Dispatch
    \/ WriteTargetPoseSet
    \/ CountSent
    \/ WaitForResult
    \/ WriteWaypointTimeout
    \/ WriteTimeoutFinished
    \/ Classify
    \/ ClearGoal
    \/ WriteRunCompleted
    \/ SignalRunCompleted
    \/ Sleep
    \/ Spin
    \/ RosShutdownCallback
    \/ WriteShutdownFinished
    \/ Finally
    \/ FinallySignal

\* the steps of the main thread, from the constructor to the end of main()
MainThread == MainThreadPlanning \/ MainThreadRunning

\* the steps of the run-timeout timer thread
RunTimeoutThread ==
    \/ RunTimeoutCallback
    \/ RunTimeoutFinished
    \/ RunTimeoutSignal

InitTelemetry == InitWith(Graphs(2, 1, 1), "init", FALSE, FALSE)

NextTelemetry ==
    \/ MainThread
    \/ KeyboardInterrupt
    \/ RunTimeoutThread
    \/ scan_callback_recording
    \/ amcl_particles_callback_on(ParticleSets(0), MaxRows)
    \/ write_estimated_pose_timer_callback
    \/ estimated_pose_correction_callback
    \/ ground_truth_pose_callback_recording

SpecTelemetry == InitTelemetry /\ [][NextTelemetry]_vars

(***************************************************************************)
(* A whole run in which the main thread is scheduled fairly once the run   *)
(* has started: from line 220 on it takes a step whenever it has one to    *)
(* take.  Its blocking calls return: the wait for the server after 5 s     *)
(* (line 226), the wait for a result after waypoint_timeout (line 244),    *)
(* the sleep after 1 s (line 273), and rospy.spin once the shutdown is     *)
(* signalled.  Nothing is assumed of the planner, of the timer, of the     *)
(* callbacks or of interrupts.                                             *)
(***************************************************************************)
SpecFair == Init /\ [][Next]_vars /\ WF_vars(MainThreadRunning)

(***************************************************************************)
(* The particle-set recorder alone, on every particle set within the       *)
(* bounds, in a run that has just started on the map of two vertices and   *)
(* one edge: the state at line 223, before the first test of the loop.     *)
(***************************************************************************)
InitParticles ==
    LET map == CHOOSE g \in Graphs(2, 1, 1) : g.weight[{1, 2}] = 1 IN
    /\ mainpc = "loop_test"
    /\ node = TRUE
    /\ raised = "none"
    /\ shutdown = FALSE
    /\ events = <<"run_start">>
    /\ end_run_count = 0
    /\ timerpc = "waiting"
    /\ ground_truth_map = map
    /\ voronoi_graph = Some(RemoveSmallComponents(map))
    /\ costs = Some(MinimumLengthCosts(map))
    /\ current_node = 1
    /\ nodes_queue = {}
    /\ candidates = <<<<1, 1>>>>
    /\ traversal_path_indices = <<2, 1>>
    /\ traversal_path_poses = Some(<<VertexPosition(2), VertexPosition(1)>>)
    /\ num_goals = Some(2)
    /\ current_goal = None
    /\ goal_sent_count = 0
    /\ goal_succeeded_count = 0
    /\ goal_failed_count = 0
    /\ run_started = TRUE
    /\ received_first_scan = TRUE
    /\ latest_ground_truth_pose_msg = None
    /\ sent_goals = <<>>
    /\ nav_state = "PENDING"
    /\ scans_file = 0
    /\ amcl_particles_file = <<>>
    /\ estimated_poses_df = 0
    /\ estimated_correction_poses_df = 0
    /\ ground_truth_poses_df = 0
    /\ csv_files = None
    /\ ps_snapshot_count = 0
    /\ ps_snapshot_files = [i \in {} |-> None]
    /\ ps_running = 1..MaxProcesses

NextParticles ==
    amcl_particles_callback_on(ParticleSets(MaxParticles), MaxLines)

SpecParticles == InitParticles /\ [][NextParticles]_vars

(***************************************************************************)
(* The snapshot timer alone, from the return of the constructor, while the *)
(* main thread waits for the first scan.                                   *)
(***************************************************************************)
InitSnapshot == InitWith(Graphs(2, 1, 1), "wait_first_scan", TRUE, FALSE)

NextSnapshot ==
    \/ ps_snapshot_timer_callback
    \/ ProcessExits

SpecSnapshot == InitSnapshot /\ [][NextSnapshot]_vars


(***************************************************************************)
(* Properties.                                                             *)
(***************************************************************************)
NoDuplicates(s) == \A i, j \in 1..Len(s) : i # j => s[i] # s[j]

\* the connected component of the start vertex: the tour never leaves it
StartComponent == node_connected_component(Val(voronoi_graph), current_node)

\* C1: in the greedy loop the tour and the queue partition the start vertex's
\* component and the tour holds no vertex twice; when the loop has ended the
\* tour holds exactly the vertices of that component, hence all N vertices of
\* a graph with a single component; and the loop never meets an empty
\* candidate list (the only source of a plain exception in the planner).
C1_TourCoversStartComponent ==
    /\ raised # "Exception"
    /\ (current_node # 0 /\ mainpc \in {"greedy", "write_run_start"}) =>
          /\ NoDuplicates(traversal_path_indices)
          /\ Range(traversal_path_indices) \cap nodes_queue = {}
          /\ Range(traversal_path_indices) \cup nodes_queue = StartComponent
    /\ mainpc = "write_run_start" =>
          /\ Range(traversal_path_indices) = StartComponent
          /\ Len(traversal_path_indices) = Cardinality(StartComponent)
          /\ Val(num_goals) = Cardinality(StartComponent)
          /\ (connected_components(ground_truth_map) = {ground_truth_map.nodes}
                => Len(traversal_path_indices) = Cardinality(ground_truth_map.nodes))

\* C1 witness: a finished tour of one component of a graph with two
\* components of two vertices each
C1_Witness ==
    /\ mainpc = "write_run_start"
    /\ Cardinality(connected_components(Val(voronoi_graph))) = 2
    /\ Cardinality(Val(voronoi_graph).nodes) = 4
    /\ Len(traversal_path_indices) = 2

\* the positions of the main thread between a classification and the next
\* loop test
AfterClassification ==
    {"clear_goal", "sleep", "write_run_completed", "signal_run_completed"}

\* C2: after every classified attempt the goals sent are the goals succeeded
\* plus the goals failed.
C2_SentIsSucceededPlusFailed ==
    mainpc \in AfterClassification =>
        /\ goal_sent_count >= 1
        /\ goal_sent_count = goal_succeeded_count + goal_failed_count

\* C2 witness: two attempts classified, one each way, a third one to go, the
\* run-timeout callback under way
C2_Witness ==
    /\ mainpc = "sleep"
    /\ goal_succeeded_count = 1
    /\ goal_failed_count = 1
    /\ timerpc = "write_finished"

\* the positions of the main thread between popleft (line 237) and the
\* increment of goal_sent_count (line 242)
BetweenPopAndCount == {"write_target_pose_set", "count_sent"}

\* C3 as claimed: once num_goals is set, the remaining length of the tour is
\* num_goals - goal_sent_count in every state.
C3_RemainingIsGoalsMinusSent ==
    num_goals # None =>
        Len(Val(traversal_path_poses)) = Val(num_goals) - goal_sent_count

\* C3 amended: once num_goals is set, the remaining length of the tour is
\* num_goals - goal_sent_count, except between popleft and the increment of
\* goal_sent_count, where it is one less.
C3_RemainingIsGoalsMinusSentOutsideSend ==
    num_goals # None =>
        Len(Val(traversal_path_poses)) =
            Val(num_goals) - goal_sent_count
                - (IF mainpc \in BetweenPopAndCount THEN 1 ELSE 0)

\* C3 witness: the second waypoint popped and sent, not yet counted, while the
\* ground truth callback has run
C3_Witness ==
    /\ mainpc = "count_sent"
    /\ goal_sent_count = 1
    /\ Len(Val(traversal_path_poses)) = 1
    /\ latest_ground_truth_pose_msg # None

\* C4 as claimed: end_run has run exactly once when main() ends, whatever
\* ended the run.
C4_EndRunExactlyOnce ==
    mainpc = "exit" => end_run_count = 1

\* C4 amended: end_run never runs twice; when main() ends it has run exactly
\* once if the constructor returned and not at all if the constructor raised
\* or was interrupted.
C4_EndRunOnceIfConstructed ==
    /\ end_run_count <= 1
    /\ mainpc = "exit" => end_run_count = (IF node THEN 1 ELSE 0)
    /\ mainpc \notin {"finally_signal", "exit"} => end_run_count = 0

\* C4 witness: main() has ended after an interrupt that followed the run
\* timeout, and end_run has run once
C4_Witness ==
    /\ mainpc = "exit"
    /\ raised = "KeyboardInterrupt"
    /\ timerpc = "done"
    /\ end_run_count = 1

\* C5: the ledger entry after waypoint_timeout, when there is one, is
\* supervisor_finished; and a run that recorded waypoint_timeout ends with
\* end_run executed exactly once.
C5_WaypointTimeoutThenFinished ==
    /\ \A i \in 1..(Len(events) - 1) :
          events[i] = "waypoint_timeout" => events[i + 1] = "supervisor_finished"
    /\ (mainpc = "exit" /\ "waypoint_timeout" \in Range(events))
          => end_run_count = 1

\* the step of lines 249-263 as the claim describes it
C6_ClassificationStep ==
    (mainpc = "classify" /\ mainpc' # "classify") =>
        /\ mainpc' = "clear_goal"
        /\ IF /\ nav_state = "SUCCEEDED"
              /\ latest_ground_truth_pose_msg # None
              /\ DistanceBelowTolerance(Val(current_goal),
                                        Val(latest_ground_truth_pose_msg))
           THEN /\ events' = Append(events, "target_pose_reached")
                /\ goal_succeeded_count' = goal_succeeded_count + 1
                /\ goal_failed_count' = goal_failed_count
           ELSE /\ events' = Append(events, "target_pose_not_reached")
                /\ goal_failed_count' = goal_failed_count + 1
                /\ goal_succeeded_count' = goal_succeeded_count

\* the step of lines 265-273 after a classification, waypoints remaining
C6_NextStepAfterClassification ==
    (mainpc = "clear_goal" /\ mainpc' # "clear_goal"
        /\ Len(Val(traversal_path_poses)) > 0) => mainpc' = "sleep"

\* C6: a delivered result is counted as succeeded, with target_pose_reached,
\* exactly when the status is SUCCEEDED and the distance between the goal and
\* the latest ground truth position is below goal_tolerance; in every other
\* case it is counted as failed, with target_pose_not_reached; either way the
\* run goes on, to the pause before the next goal when waypoints remain.
C6_DeliveredResultIsClassified ==
    [][C6_ClassificationStep /\ C6_NextStepAfterClassification]_vars

\* the pruning leaves fewer than two vertices: a vertex is in a component of
\* two or more vertices exactly when it has a neighbour
InsufficientGraph ==
    Cardinality({v \in ground_truth_map.nodes :
                    Neighbours(ground_truth_map, v) # {}}) < 2

InsufficientEvent ==
    "insufficient_number_of_nodes_in_deleaved_reduced_voronoi_graph"

\* C7: with a graph that the pruning leaves with fewer than two vertices,
\* run_start is never recorded, run_started stays false and no goal is ever
\* sent; once the pruning has run the insufficient-nodes event is in the
\* ledger and the main thread is on its way out.
C7_InsufficientGraphFailsPlanning ==
    InsufficientGraph =>
        /\ "run_start" \notin Range(events)
        /\ ~run_started
        /\ goal_sent_count = 0
        /\ sent_goals = <<>>
        /\ num_goals = None
        /\ (voronoi_graph # None /\ mainpc # "prune") =>
              /\ InsufficientEvent \in Range(events)
              /\ raised = "RunFailException"
              /\ mainpc \in {"finally", "finally_signal", "exit"}

\* C7 witness: main() has ended after the planning failure
C7_Witness ==
    /\ InsufficientGraph
    /\ mainpc = "exit"
    /\ InsufficientEvent \in Range(events)
    /\ end_run_count = 1

\* C8: once run_timeout is in the ledger no further goal is sent.
C8_NoGoalAfterRunTimeout ==
    [][("run_timeout" \in Range(events)) => sent_goals' = sent_goals]_vars

\* the planned tour as poses
PlannedPoses ==
    [i \in 1..Len(traversal_path_indices) |->
        VertexPosition(traversal_path_indices[i])]

\* C9: the goals sent are a prefix of the planned tour, and no waypoint is
\* sent twice.
C9_SentGoalsArePrefixOfTour ==
    /\ Len(sent_goals) <= Len(traversal_path_indices)
    /\ \A i \in 1..Len(sent_goals) : sent_goals[i] = PlannedPoses[i]
    /\ NoDuplicates(sent_goals)
    /\ Len(sent_goals) > 0 => mainpc # "greedy"

\* C9 witness: the third waypoint sent after a failed and a succeeded attempt
C9_Witness ==
    /\ Len(sent_goals) = 3
    /\ goal_failed_count = 1
    /\ goal_succeeded_count = 1
    /\ mainpc = "wait_for_result"

\* C10: whenever the main thread is past the wait for the first scan (it is
\* planning, or has planned), the first scan has been received.
C10_PlanningOnlyAfterFirstScan ==
    (mainpc = "get_graph" \/ voronoi_graph # None
        \/ "run_start" \in Range(events) \/ run_started)
            => received_first_scan

\* a step of scan_callback or ground_truth_pose_callback that changes the
\* flag or the reference it sets
SetsFlagOrReference ==
    \/ received_first_scan' # received_first_scan
    \/ latest_ground_truth_pose_msg' # latest_ground_truth_pose_msg

\* C11: while run_started is false no recorder writes a line or appends a
\* row, so that every recorded row was observed after run_start was written;
\* before that, a recorder changes nothing but received_first_scan and the
\* latest ground truth pose.
C11_RecordersGatedByRunStarted ==
    /\ [](RecordedRows > 0 => run_started /\ "run_start" \in Range(events))
    /\ [][~run_started /\ SetsFlagOrReference =>
              UNCHANGED <<mainpc, mainvars, run_started, plannervars,
                          dispatchvars, recordvars>>]_vars

\* every recorder has run before the run started: the scan and the ground
\* truth callbacks have set their flag and reference, run_start is written
C11_Witness ==
    /\ ~run_started
    /\ mainpc = "set_run_started"
    /\ received_first_scan
    /\ latest_ground_truth_pose_msg # None
    /\ RecordedRows = 0

\* a tick of the snapshot timer
SnapshotTick == ps_snapshot_count' # ps_snapshot_count

\* C12: after k ticks the snapshot files are those numbered 0..k-1; a tick
\* writes the file of the next number and leaves the earlier files alone,
\* whichever processes have exited and whether or not the serialization
\* failed; a tick at which every tracked process has exited writes a file
\* holding the empty list.
C12_SnapshotFilesContiguous ==
    /\ [](DOMAIN ps_snapshot_files = 0..(ps_snapshot_count - 1))
    /\ [][SnapshotTick =>
              /\ ps_snapshot_count' = ps_snapshot_count + 1
              /\ ps_snapshot_count \notin DOMAIN ps_snapshot_files
              /\ \A i \in DOMAIN ps_snapshot_files :
                     ps_snapshot_files'[i] = ps_snapshot_files[i]
              /\ ps_running = {} =>
                     ps_snapshot_files'[ps_snapshot_count] = Some(<<>>)]_vars

\* a serialization failed at a tick, a later tick found every tracked
\* process gone
C12_Witness ==
    /\ ps_running = {}
    /\ \E i, j \in DOMAIN ps_snapshot_files :
           /\ i < j
           /\ ps_snapshot_files[i] = None
           /\ ps_snapshot_files[j] = Some(<<>>)

\* the number of entries of the ledger that are the given event
Occurrences(event) == Cardinality({i \in 1..Len(events) : events[i] = event})

\* the events of the aborts that C13 names
AbortEvents ==
    {"waypoint_timeout", "failed_to_communicate_with_navigation_node",
     InsufficientEvent}

\* every waypoint of the planned tour has been attempted and classified,
\* and the main thread has passed line 269
AllGoalsClassified ==
    /\ num_goals # None
    /\ Val(num_goals) = goal_succeeded_count + goal_failed_count
    /\ mainpc \notin {"clear_goal", "write_run_completed"}

\* C13: run_completed is in the ledger exactly when the tour became empty
\* after a classified attempt, with goal_sent_count = num_goals =
\* goal_succeeded_count + goal_failed_count, and the shutdown is signalled
\* right after it; it is recorded at most once and never together with
\* waypoint_timeout, failed_to_communicate_with_navigation_node or the
\* event of a planning failure.
C13_RunCompletedWhenTourExhausted ==
    /\ Occurrences("run_completed") <= 1
    /\ "run_completed" \in Range(events) <=> AllGoalsClassified
    /\ "run_completed" \in Range(events) =>
           /\ traversal_path_poses = Some(<<>>)
           /\ goal_sent_count = Val(num_goals)
           /\ Val(num_goals) = goal_succeeded_count + goal_failed_count
           /\ shutdown \/ mainpc = "signal_run_completed"
           /\ Range(events) \cap AbortEvents = {}

\* a run that completed after one goal reached and one goal not reached
C13_Witness ==
    /\ "run_completed" \in Range(events)
    /\ goal_succeeded_count >= 1
    /\ goal_failed_count >= 1
    /\ mainpc = "exit"

\* the navigation service was found unreachable at a dispatch step
CommunicationFailed ==
    "failed_to_communicate_with_navigation_node" \in Range(events)

\* the finally block of main() and what follows it
Finalizing == {"finally", "finally_signal", "exit"}

\* C14: the step that finds the navigation service unreachable writes
\* failed_to_communicate_with_navigation_node and raises: it leaves the
\* tour, the goals sent and the counters alone; from then on the tour and
\* the goals sent never change, the event is not written again, and the
\* main thread is in the finally block, where end_run is executed.
C14_UnreachableServerAborts ==
    /\ [][~CommunicationFailed /\ CommunicationFailed' =>
              /\ mainpc = "wait_for_server"
              /\ mainpc' = "finally"
              /\ raised' = "RunFailException"
              /\ UNCHANGED dispatchvars]_vars
    /\ [][CommunicationFailed =>
              UNCHANGED <<sent_goals, traversal_path_poses, goal_sent_count,
                          goal_succeeded_count, goal_failed_count>>]_vars
    /\ [](CommunicationFailed =>
              /\ mainpc \in Finalizing
              /\ Occurrences("failed_to_communicate_with_navigation_node") = 1
              /\ mainpc # "finally" => end_run_count = 1)

\* the service was unreachable at the second dispatch step, with one
\* waypoint still in the tour, and main() has ended
C14_Witness ==
    /\ CommunicationFailed
    /\ goal_sent_count = 1
    /\ Len(Val(traversal_path_poses)) >= 1
    /\ mainpc = "exit"
    /\ end_run_count = 1

\* C15: the dispatcher never finds the tour empty at line 230, and the event
\* insufficient_number_of_poses_in_traversal_path is never written.
C15_TourNeverEmptyAtDispatch ==
    /\ mainpc = "dispatch" => Len(Val(traversal_path_poses)) >= 1
    /\ "insufficient_number_of_poses_in_traversal_path" \notin Range(events)

\* the dispatcher is at line 230 with the last waypoint of the tour, after
\* one goal reached and one not reached, and the run timeout has fired
C15_Witness ==
    /\ mainpc = "dispatch"
    /\ Len(Val(traversal_path_poses)) = 1
    /\ goal_succeeded_count >= 1
    /\ goal_failed_count >= 1
    /\ timerpc # "waiting"

\* the rows the three buffered tables hold now
BufferedTables ==
    [estimated_poses |-> estimated_poses_df,
     estimated_correction_poses |-> estimated_correction_poses_df,
     ground_truth_poses |-> ground_truth_poses_df]

\* C16: no pose-correction, ground-truth or estimated-pose callback appends a
\* row during or after end_run: once end_run has written the tables, the
\* files hold every row of the tables.
C16_NoRowAfterEndRun == csv_files # None => Val(csv_files) = BufferedTables

\* C17: once run_start is recorded, the main thread eventually leaves the
\* dispatch loop, runs end_run in the finally block and reaches the end of
\* main().
C17_RunEventuallyFinalized ==
    ("run_start" \in Range(events)) ~> (mainpc = "exit" /\ end_run_count = 1)

\* a run that started has reached the end of main() after at least two
\* attempts
C17_Witness ==
    /\ "run_start" \in Range(events)
    /\ mainpc = "exit"
    /\ end_run_count = 1
    /\ goal_sent_count >= 2

\* the vertex the last step of the tour construction started from: the
\* vertex appended before the last one, or for the first step the start
\* vertex, which is in nodes_queue and has no entry in candidates
PreviousNodes ==
    IF Len(traversal_path_indices) >= 2
    THEN {traversal_path_indices[Len(traversal_path_indices) - 1]}
    ELSE {v \in nodes_queue :
             \A k \in 1..Len(candidates) : candidates[k][1] # v}

\* C18: a step of the tour construction appends a vertex whose cost from the
\* current vertex, in the current vertex's cost table, is the minimum over
\* the vertices of its component that are not yet in the tour; no such
\* vertex of strictly smaller cost is left out, and among those of minimum
\* cost the one appended is the first in the iteration order of the table.
\* Stated on the state a step leaves: current_node is the vertex appended,
\* candidates the entries the step chose from, in their order; the vertices
\* not yet visited before the step are those of nodes_queue and the one
\* appended (by C1, the vertices of the component that are not in the tour).
C18_GreedyStepTakesNearest ==
    (traversal_path_indices # <<>> /\ raised = "none") =>
        \E previous_node \in PreviousNodes :
            LET table == Val(costs)[previous_node]
                unvisited ==
                    (nodes_queue \cup {current_node}) \ {previous_node}
                position == CHOOSE k \in 1..Len(candidates) :
                                candidates[k][1] = current_node
            IN /\ current_node =
                      traversal_path_indices[Len(traversal_path_indices)]
               /\ current_node \in unvisited
               /\ \A v \in unvisited : table[v] >= table[current_node]
               /\ {candidates[k][1] : k \in 1..Len(candidates)} = unvisited
               /\ \A k \in 1..Len(candidates) :
                      candidates[k][2] = table[candidates[k][1]]
               /\ \A k \in 1..(position - 1) :
                      candidates[k][2] > table[current_node]

\* a step had two candidates of minimum cost and took the first of them,
\* which is not the one of smallest index
C18_Witness ==
    /\ Len(traversal_path_indices) >= 2
    /\ \E i, j \in 1..Len(candidates) :
           /\ i < j
           /\ candidates[i][1] = current_node
           /\ candidates[i][2] = candidates[j][2]
           /\ candidates[i][1] > candidates[j][1]
           /\ \A k \in 1..Len(candidates) :
                  candidates[k][2] >= candidates[i][2]

\* the fields of a line read back: the texts between the separators; a field
\* of several tokens is several values written with nothing between them
RECURSIVE Fields(_)
Fields(line) ==
    IF \A k \in 1..Len(line) : line[k] # ", "
    THEN <<line>>
    ELSE LET first == CHOOSE k \in 1..Len(line) :
                          /\ line[k] = ", "
                          /\ \A j \in 1..(k - 1) : line[j] # ", "
         IN <<SubSeq(line, 1, first - 1)>>
                \o Fields(SubSeq(line, first + 1, Len(line)))

\* C19: every line of amcl_particles.csv has 3 + 3n fields, n being its third
\* field, and each field is one value: t, frame_id, n, then x, y and theta
\* of each particle.
C19_ParticleLineFields ==
    \A l \in 1..Len(amcl_particles_file) :
        LET fields == Fields(amcl_particles_file[l]) IN
        /\ \A k \in 1..Len(fields) : Len(fields[k]) = 1
        /\ \E n \in 0..MaxParticles :
               /\ fields[3] = str(n)
               /\ Len(fields) = 3 + 3 * n

\* C20: supervisor_finished is in the ledger at most once, and when it is,
\* it is the last entry.
C20_SupervisorFinishedOnceAndLast ==
    /\ Occurrences("supervisor_finished") <= 1
    /\ "supervisor_finished" \in Range(events) =>
           events[Len(events)] = "supervisor_finished"

\* the two events of a classification
ClassificationEvents == {"target_pose_reached", "target_pose_not_reached"}

\* C21: the step that handles a delivered result (lines 249-263) records
\* exactly one of target_pose_reached and target_pose_not_reached and
\* increments exactly one of goal_succeeded_count and goal_failed_count, and
\* the step after it resets current_goal to None, whatever ground truth
\* samples were received, none included.
C21_EveryDeliveredResultClassified ==
    /\ [][(mainpc = "classify" /\ mainpc' # "classify") =>
              /\ \E event \in ClassificationEvents :
                     events' = Append(events, event)
              /\ \/ /\ goal_succeeded_count' = goal_succeeded_count + 1
                    /\ goal_failed_count' = goal_failed_count
                 \/ /\ goal_failed_count' = goal_failed_count + 1
                    /\ goal_succeeded_count' = goal_succeeded_count
              /\ mainpc' = "clear_goal"]_vars
    /\ [][(mainpc = "clear_goal" /\ mainpc' # "clear_goal") =>
              current_goal' = None]_vars

\* the greedy loop begins (line 189, first test) with start as the vertex
\* chosen at line 186
LoopBeginsAt(start) ==
    /\ mainpc = "greedy"
    /\ traversal_path_indices = <<>>
    /\ current_node = start

\* the greedy loop has ended
LoopEnded ==
    \/ mainpc = "greedy" /\ nodes_queue = {}
    \/ mainpc = "write_run_start"

\* the first element of the tour is not start and has a least cost, in the
\* cost table of start, among the other vertices of the component
FirstIsNearestOther(start) ==
    /\ traversal_path_indices[1] # start
    /\ start \in DOMAIN Val(costs)
    /\ LET table == Val(costs)[start] IN
        /\ traversal_path_indices[1] \in DOMAIN table
        /\ \A v \in StartComponent \ {start} :
               /\ v \in DOMAIN table
               /\ table[traversal_path_indices[1]] <= table[v]

\* C22: the start vertex is in the queue of unvisited vertices when the
\* greedy loop begins; from then on the first element of the tour, once
\* there is one, is not the start vertex but a vertex of least cost from the
\* start vertex among the other vertices of its component; and when the loop
\* has ended the start vertex is in the tour at position 2 or later.
C22_StartVertexNeverFirst ==
    \A start \in 1..RunNodes :
        [](LoopBeginsAt(start) =>
              /\ start \in nodes_queue
              /\ [](/\ traversal_path_indices # <<>> =>
                        FirstIsNearestOther(start)
                    /\ LoopEnded =>
                        \E k \in 2..Len(traversal_path_indices) :
                            traversal_path_indices[k] = start))

\* the first step of the loop in a component of three vertices: the start
\* vertex, the one vertex of the queue that had no entry among the
\* candidates, is still in the queue and the tour begins with the other
\* vertex that is strictly nearest to it
C22_Witness ==
    /\ mainpc = "greedy"
    /\ Len(traversal_path_indices) = 1
    /\ Cardinality(nodes_queue) = 2
    /\ \E start \in nodes_queue :
        /\ PreviousNodes = {start}
        /\ traversal_path_indices[1] # start
        /\ \A v \in nodes_queue \ {start} :
               Val(costs)[start][traversal_path_indices[1]]
                   < Val(costs)[start][v]

=============================================================================
